---- MODULE Spec2Model ----
(***************************************************************************)
(* Contacts-management backend (VBit7/HW_2_14): the authentication core    *)
(* (src/src/auth), the user routes and the per-user contact directory      *)
(* (src/src/contacts), modelled as a state machine.                        *)
(*                                                                         *)
(* Each HTTP handler is one atomic action.  Time is the integer number of  *)
(* seconds that python-jose writes into the iat / exp claims.              *)
(***************************************************************************)
EXTENDS Integers, Sequences, FiniteSets, TLC, Bags

VARIABLES
    users,            \* the users table: email -> User row (domain = registered emails)
    cache,            \* Auth.cache (redis): key -> [value, expire_at]
    redis_up,         \* whether the redis server behind Auth.cache answers
    now,              \* datetime.utcnow(), in whole seconds
    ticks,            \* number of clock advances so far (bounded by MaxTicks)
    requests,         \* number of requests served so far (bounded by MaxRequests)
    issued,           \* every token string handed to a client so far
    rotated,          \* history: refresh tokens presented in a successful refresh
    by_login,         \* history: refresh tokens returned by a successful login
    contacts,         \* the contacts table: id -> Contact row
    next_contact_id,  \* the contacts primary-key sequence
    resp,             \* the last request and its response
    inflight,         \* the tasks of the requests suspended at an await (a bag)
    changed_at        \* history: email -> second of the last change of the User row,
                      \* kept by the actions of the concurrent server

vars == <<users, cache, redis_up, now, ticks, requests, issued, rotated, by_login, contacts, next_contact_id, resp, inflight, changed_at>>

authVars == <<users, cache, issued, rotated, by_login>>
contactVars == <<contacts, next_contact_id>>
clockVars == <<now, ticks>>
envVars == <<now, ticks, redis_up>>
taskVars == <<inflight, changed_at>>

----------------------------------------------------------------------------
(* Bounds of the model *)

MaxTicks == 1
MaxRequests == 5
MaxContacts == 2

(* Program constants *)

ACCESS_TTL == 900
REFRESH_TTL == 604800
EMAIL_TTL == 604800
CACHE_TTL == 300

Emails == {"a@x.com", "b@x.com"}
Passwords == {"pw-one", "pw-two"}
SignupPasswords == {"pw-one"}
\* One second later; the cache entry of this instant gone; every token of this instant expired.
Deltas == {1, CACHE_TTL, REFRESH_TTL + 1}

None == <<>>
SECRET_KEY_JWT == "config.SECRET_KEY_JWT"

----------------------------------------------------------------------------
(* Credential hasher: passlib bcrypt.  A digest verifies exactly the       *)
(* plaintext it was made from.                                             *)

get_password_hash(password) == <<"bcrypt", password>>

\* Mutant: the stored hash is compared with the plain password.
verify_password_plain(plain_password, hashed_password) ==
    hashed_password = plain_password

verify_password(plain_password, hashed_password) ==
    hashed_password = <<"bcrypt", plain_password>>

----------------------------------------------------------------------------
(* Token codec: jose.jwt with HS256.  A token string is determined by its  *)
(* claims and the key: equal claims give equal strings.                    *)

Sign(payload, key) == <<"HS256", key, payload>>

jwt_encode(payload, key) == [payload |-> payload, signature |-> Sign(payload, key)]

\* Mutant: the exp claim is not looked at.
jwt_decode_ignoring_exp(token, key) ==
    IF token.signature # Sign(token.payload, key)
        THEN [error |-> "JWTError", payload |-> None]
    ELSE [error |-> "", payload |-> token.payload]

\* Mutant: the token is already dead in the second named by exp.
jwt_decode_dead_at_exp(token, key) ==
    IF token.signature # Sign(token.payload, key)
        THEN [error |-> "JWTError", payload |-> None]
    ELSE IF token.payload.exp <= now
        THEN [error |-> "JWTError", payload |-> None]
    ELSE [error |-> "", payload |-> token.payload]

\* jwt.decode: the signature must verify and exp must not lie in the past;
\* every failure is a JWTError.
jwt_decode(token, key) ==
    IF token.signature # Sign(token.payload, key)
        THEN [error |-> "JWTError", payload |-> None]
    ELSE IF token.payload.exp < now
        THEN [error |-> "JWTError", payload |-> None]
    ELSE [error |-> "", payload |-> token.payload]

\* expires_delta = 0 stands for both None and 0: `if expires_delta:` treats them alike.
create_access_token(data, expires_delta) ==
    LET expire == IF expires_delta # 0 THEN now + expires_delta ELSE now + ACCESS_TTL
    IN  jwt_encode([sub |-> data.sub, iat |-> now, exp |-> expire, scope |-> "access_token"],
                   SECRET_KEY_JWT)

\* Mutant: the refresh token is stamped with the access scope.
create_refresh_token_access_scope(data, expires_delta) ==
    LET expire == IF expires_delta # 0 THEN now + expires_delta ELSE now + REFRESH_TTL
    IN  jwt_encode([sub |-> data.sub, iat |-> now, exp |-> expire, scope |-> "access_token"],
                   SECRET_KEY_JWT)

create_refresh_token(data, expires_delta) ==
    LET expire == IF expires_delta # 0 THEN now + expires_delta ELSE now + REFRESH_TTL
    IN  jwt_encode([sub |-> data.sub, iat |-> now, exp |-> expire, scope |-> "refresh_token"],
                   SECRET_KEY_JWT)

\* The email-confirmation token carries no scope claim.
create_email_token(data) ==
    jwt_encode([sub |-> data.sub, iat |-> now, exp |-> now + EMAIL_TTL], SECRET_KEY_JWT)

HTTPException(status_code, detail) == [status |-> status_code, detail |-> detail, email |-> None]

\* payload['scope'] on a payload without that key raises KeyError, which is
\* not a JWTError and is not caught: the request ends as a server error.
KeyError == HTTPException(500, "KeyError: 'scope'")

\* Mutant: the scope of the token is not looked at.
decode_refresh_token_any_scope(refresh_token) ==
    LET d == jwt_decode(refresh_token, SECRET_KEY_JWT)
    IN  IF d.error # "" THEN HTTPException(401, "Could not validate credentials")
        ELSE [status |-> 200, detail |-> "", email |-> d.payload.sub]

decode_refresh_token(refresh_token) ==
    LET d == jwt_decode(refresh_token, SECRET_KEY_JWT)
    IN  IF d.error # "" THEN HTTPException(401, "Could not validate credentials")
        ELSE IF "scope" \notin DOMAIN d.payload THEN KeyError
        ELSE IF d.payload.scope = "refresh_token"
            THEN [status |-> 200, detail |-> "", email |-> d.payload.sub]
        ELSE HTTPException(401, "Invalid scope for token")

\* Mutant: a decode failure is reported as a credentials failure.
get_email_from_token_unauthorized(token) ==
    LET d == jwt_decode(token, SECRET_KEY_JWT)
    IN  IF d.error # "" THEN HTTPException(401, "Could not validate credentials")
        ELSE [status |-> 200, detail |-> "", email |-> d.payload.sub]

get_email_from_token(token) ==
    LET d == jwt_decode(token, SECRET_KEY_JWT)
    IN  IF d.error # "" THEN HTTPException(422, "Invalid token for email verification")
        ELSE [status |-> 200, detail |-> "", email |-> d.payload.sub]

----------------------------------------------------------------------------
(* User directory and user cache *)

UserExists(email) == email \in DOMAIN users

get_user_by_email(email) == IF UserExists(email) THEN users[email] ELSE None

pickle_dumps(user) == <<"pickle", user>>
pickle_loads(bytes) == bytes[2]

\* redis GET: a key whose expiry has passed is gone.
cache_get(key) ==
    IF key \in DOMAIN cache /\ now < cache[key].expire_at THEN cache[key].value ELSE None

\* redis SET followed by EXPIRE key seconds.
cache_set_expire(c, key, value, seconds) ==
    [k \in DOMAIN c \cup {key} |->
        IF k = key THEN [value |-> value, expire_at |-> now + seconds] ELSE c[k]]

\* Mutant: a miss is answered from the directory and the cache is left alone.
get_current_user_without_cache_set(token) ==
    LET d == jwt_decode(token, SECRET_KEY_JWT)
        credentials_exception ==
            [status |-> 401, detail |-> "Could not validate credentials",
             user |-> None, cache |-> cache]
    IN  IF d.error # "" THEN credentials_exception
        ELSE IF "scope" \notin DOMAIN d.payload
            THEN [status |-> 500, detail |-> "KeyError: 'scope'", user |-> None, cache |-> cache]
        ELSE IF d.payload.scope # "access_token" THEN credentials_exception
        ELSE IF ~redis_up
            THEN [status |-> 500, detail |-> "redis.exceptions.ConnectionError",
                  user |-> None, cache |-> cache]
        ELSE LET email == d.payload.sub
                 hit == cache_get(email)
             IN  IF hit = None
                    THEN IF ~UserExists(email) THEN credentials_exception
                         ELSE [status |-> 200, detail |-> "", user |-> users[email],
                               cache |-> cache]
                    ELSE [status |-> 200, detail |-> "", user |-> pickle_loads(hit),
                          cache |-> cache]

\* Mutant: a user without a stored refresh token is not authenticated.
get_current_user_requiring_session(token) ==
    LET d == jwt_decode(token, SECRET_KEY_JWT)
        credentials_exception ==
            [status |-> 401, detail |-> "Could not validate credentials",
             user |-> None, cache |-> cache]
    IN  IF d.error # "" THEN credentials_exception
        ELSE IF "scope" \notin DOMAIN d.payload
            THEN [status |-> 500, detail |-> "KeyError: 'scope'", user |-> None, cache |-> cache]
        ELSE IF d.payload.scope # "access_token" THEN credentials_exception
        ELSE IF ~redis_up
            THEN [status |-> 500, detail |-> "redis.exceptions.ConnectionError",
                  user |-> None, cache |-> cache]
        ELSE LET email == d.payload.sub
                 hit == cache_get(email)
             IN  IF hit = None
                    THEN IF ~UserExists(email) THEN credentials_exception
                         ELSE IF users[email].refresh_token = None THEN credentials_exception
                         ELSE [status |-> 200, detail |-> "", user |-> users[email],
                               cache |-> cache_set_expire(cache, email,
                                                          pickle_dumps(users[email]), CACHE_TTL)]
                    ELSE [status |-> 200, detail |-> "", user |-> pickle_loads(hit),
                          cache |-> cache]

\* Auth.get_current_user: [status, detail, user, cache], cache being the
\* cache contents the call leaves behind.
get_current_user(token) ==
    LET d == jwt_decode(token, SECRET_KEY_JWT)
        credentials_exception ==
            [status |-> 401, detail |-> "Could not validate credentials",
             user |-> None, cache |-> cache]
    IN  IF d.error # "" THEN credentials_exception
        ELSE IF "scope" \notin DOMAIN d.payload
            THEN [status |-> 500, detail |-> "KeyError: 'scope'", user |-> None, cache |-> cache]
        ELSE IF d.payload.scope # "access_token" THEN credentials_exception
        \* self.cache.get raises redis.exceptions.ConnectionError: nothing catches it
        ELSE IF ~redis_up
            THEN [status |-> 500, detail |-> "redis.exceptions.ConnectionError",
                  user |-> None, cache |-> cache]
        ELSE LET email == d.payload.sub
                 hit == cache_get(email)
             IN  IF hit = None
                    THEN IF ~UserExists(email) THEN credentials_exception
                         ELSE [status |-> 200, detail |-> "", user |-> users[email],
                               cache |-> cache_set_expire(cache, email,
                                                          pickle_dumps(users[email]), CACHE_TTL)]
                    ELSE [status |-> 200, detail |-> "", user |-> pickle_loads(hit),
                          cache |-> cache]

\* Mutant: the UPDATE has no WHERE clause.
update_token_every_row(email, token) ==
    [e \in DOMAIN users |-> [users[e] EXCEPT !.refresh_token = token]]

\* Mutant: a None token is not written.
update_token_keeps_on_none(email, token) ==
    IF token = None THEN users ELSE [users EXCEPT ![email].refresh_token = token]

\* repository_users.update_token: user.refresh_token = token; commit.
update_token(email, token) == [users EXCEPT ![email].refresh_token = token]

\* Mutant: the flag is set but never committed.
confirmed_email_without_commit(email) == users

\* repository_users.confirmed_email: user.confirmed = True; commit.
confirmed_email(email) == [users EXCEPT ![email].confirmed = TRUE]

\* repository_users.create_user: the new row, with the column defaults.
\* Mutant: the new account counts as confirmed from the start.
create_user_confirmed(body) ==
    [id |-> Cardinality(DOMAIN users) + 1,
     email |-> body.email,
     password |-> body.password,
     avatar |-> <<"gravatar", body.email>>,
     refresh_token |-> None,
     confirmed |-> TRUE]

\* Mutant: the new account is created with a session already open.
create_user_logged_in(body) ==
    [id |-> Cardinality(DOMAIN users) + 1,
     email |-> body.email,
     password |-> body.password,
     avatar |-> <<"gravatar", body.email>>,
     refresh_token |-> create_refresh_token([sub |-> body.email], 0),
     confirmed |-> FALSE]

create_user(body) ==
    [id |-> Cardinality(DOMAIN users) + 1,
     email |-> body.email,
     password |-> body.password,
     avatar |-> <<"gravatar", body.email>>,
     refresh_token |-> None,
     confirmed |-> FALSE]

\* email_service.send_email: mails the confirmation link, which carries
\* create_email_token({"sub": email}).
send_email(email) == create_email_token([sub |-> email])

----------------------------------------------------------------------------
(* Dates (datetime.date) *)

IsLeap(year) == (year % 4 = 0 /\ year % 100 # 0) \/ year % 400 = 0

DaysInMonth(year, month) ==
    IF month = 2 THEN (IF IsLeap(year) THEN 29 ELSE 28)
    ELSE IF month \in {4, 6, 9, 11} THEN 30 ELSE 31

NextDay(d) ==
    IF d.day < DaysInMonth(d.year, d.month) THEN [d EXCEPT !.day = d.day + 1]
    ELSE IF d.month < 12 THEN [year |-> d.year, month |-> d.month + 1, day |-> 1]
    ELSE [year |-> d.year + 1, month |-> 1, day |-> 1]

\* date + timedelta(days = n)
RECURSIVE AddDays(_, _)
AddDays(d, n) == IF n = 0 THEN d ELSE AddDays(NextDay(d), n - 1)

----------------------------------------------------------------------------
(* Contact directory (src/contacts/crud.py).  A query result is the        *)
(* sequence of the matching rows.                                          *)

Lower(ch) ==
    CASE ch = "A" -> "a" [] ch = "B" -> "b" [] ch = "L" -> "l" [] ch = "R" -> "r"
      [] OTHER -> ch

\* SQL LIKE, case-insensitive: % stands for any run, _ for any one character.
RECURSIVE ilike(_, _)
ilike(string, pattern) ==
    IF pattern = <<>> THEN string = <<>>
    ELSE IF Head(pattern) = "%"
        THEN ilike(string, Tail(pattern)) \/ (string # <<>> /\ ilike(Tail(string), pattern))
    ELSE /\ string # <<>>
         /\ (Head(pattern) = "_" \/ Lower(Head(pattern)) = Lower(Head(string)))
         /\ ilike(Tail(string), Tail(pattern))

\* The rows with these ids, ascending by key[id], then by id.
RECURSIVE RowsOrderedBy(_, _)
RowsOrderedBy(ids, key) ==
    IF ids = {} THEN <<>>
    ELSE LET first == CHOOSE i \in ids :
                        \A j \in ids : key[i] < key[j] \/ (key[i] = key[j] /\ i <= j)
         IN  <<contacts[first]>> \o RowsOrderedBy(ids \ {first}, key)

\* No ORDER BY: the rows come in primary-key order.
RowId == [i \in DOMAIN contacts |-> i]
\* order_by(extract('day', date_of_birth))
RowDay == [i \in DOMAIN contacts |-> contacts[i].date_of_birth.day]

\* .offset(offset).limit(limit) of a result
OffsetLimit(rows, offset, limit) ==
    SubSeq(rows, offset + 1, IF offset + limit < Len(rows) THEN offset + limit ELSE Len(rows))

\* Mutant: the offset is dropped from the statement.
get_contacts_without_offset(limit, offset, user) ==
    OffsetLimit(RowsOrderedBy({i \in DOMAIN contacts : contacts[i].user_id = user.id}, RowId),
                0, limit)

get_contacts(limit, offset, user) ==
    OffsetLimit(RowsOrderedBy({i \in DOMAIN contacts : contacts[i].user_id = user.id}, RowId),
                offset, limit)

\* Mutant: the row is selected by id alone.
get_contact_by_id_alone(contact_id, user) ==
    IF contact_id \in DOMAIN contacts THEN contacts[contact_id] ELSE None

get_contact(contact_id, user) ==
    IF contact_id \in DOMAIN contacts /\ contacts[contact_id].user_id = user.id
        THEN contacts[contact_id]
        ELSE None

\* The columns of Contact that ContactSchema fills; none of them is nullable.
ContactColumns ==
    {"first_name", "last_name", "email", "phone_number", "date_of_birth", "additional_data"}

\* body.model_dump(exclude_unset=True): only the fields the request carried.
\* A body is the validated ContactSchema (defaults filled in) together with
\* its fields_set.
model_dump_exclude_unset(body) == [f \in body.fields_set |-> body[f]]

\* The commit fails on a NULL in a NOT NULL column.
IntegrityError == "sqlalchemy.exc.IntegrityError"

\* [result, contacts, error]: the row returned, the table after the commit,
\* and the exception the commit raised, if any.  Contact(**data) leaves a
\* column without a value NULL.
create_contact(body, user) ==
    LET data == model_dump_exclude_unset(body)
    IN  IF ContactColumns \subseteq DOMAIN data
            THEN LET contact == [id |-> next_contact_id,
                                 first_name |-> data.first_name,
                                 last_name |-> data.last_name,
                                 email |-> data.email,
                                 phone_number |-> data.phone_number,
                                 date_of_birth |-> data.date_of_birth,
                                 additional_data |-> data.additional_data,
                                 user_id |-> user.id]
                 IN  [result |-> contact,
                      contacts |-> [i \in DOMAIN contacts \cup {contact.id} |->
                                     IF i = contact.id THEN contact ELSE contacts[i]],
                      error |-> ""]
            ELSE [result |-> None, contacts |-> contacts, error |-> IntegrityError]

\* additional_data is the one field whose schema default is None: left out of
\* the request it reaches the row as NULL and the commit fails.
update_contact(contact_id, body, user) ==
    IF contact_id \in DOMAIN contacts /\ contacts[contact_id].user_id = user.id
        THEN IF "additional_data" \notin body.fields_set
                THEN [result |-> None, contacts |-> contacts, error |-> IntegrityError]
             ELSE LET contact == [contacts[contact_id] EXCEPT
                                     !.first_name = body.first_name,
                                     !.last_name = body.last_name,
                                     !.email = body.email,
                                     !.phone_number = body.phone_number,
                                     !.date_of_birth = body.date_of_birth,
                                     !.additional_data = body.additional_data]
                  IN  [result |-> contact,
                       contacts |-> [contacts EXCEPT ![contact_id] = contact],
                       error |-> ""]
        ELSE [result |-> None, contacts |-> contacts, error |-> ""]

\* Mutant: the row is returned but the delete is never committed.
delete_contact_without_commit(contact_id, user) ==
    IF contact_id \in DOMAIN contacts /\ contacts[contact_id].user_id = user.id
        THEN [result |-> contacts[contact_id], contacts |-> contacts]
        ELSE [result |-> None, contacts |-> contacts]

delete_contact(contact_id, user) ==
    IF contact_id \in DOMAIN contacts /\ contacts[contact_id].user_id = user.id
        THEN [result |-> contacts[contact_id],
              contacts |-> [i \in DOMAIN contacts \ {contact_id} |-> contacts[i]]]
        ELSE [result |-> None, contacts |-> contacts]

\* Mutant: the filter_by(user=user) is missing.
search_contacts_of_all_users(query, user) ==
    LET pattern == <<"%">> \o query \o <<"%">>
    IN  RowsOrderedBy({i \in DOMAIN contacts :
                        \/ ilike(contacts[i].first_name, pattern)
                        \/ ilike(contacts[i].last_name, pattern)
                        \/ ilike(contacts[i].email, pattern)}, RowId)

search_contacts(query, user) ==
    LET pattern == <<"%">> \o query \o <<"%">>
    IN  RowsOrderedBy({i \in DOMAIN contacts :
                        /\ \/ ilike(contacts[i].first_name, pattern)
                           \/ ilike(contacts[i].last_name, pattern)
                           \/ ilike(contacts[i].email, pattern)
                        /\ contacts[i].user_id = user.id}, RowId)

congratulate(today, user) ==
    LET current_date == today
        end_date == AddDays(current_date, 7)
    IN  RowsOrderedBy({i \in DOMAIN contacts :
                        /\ \/ /\ contacts[i].date_of_birth.month = current_date.month
                              /\ contacts[i].date_of_birth.day >= current_date.day
                              /\ contacts[i].date_of_birth.day <= end_date.day
                           \/ /\ contacts[i].date_of_birth.month = end_date.month
                              /\ contacts[i].date_of_birth.day <= end_date.day
                           \/ /\ contacts[i].date_of_birth.month = current_date.month
                              /\ contacts[i].date_of_birth.day = current_date.day
                        /\ contacts[i].user_id = user.id}, RowDay)

----------------------------------------------------------------------------
(* What a client can present as a token: a token it was given, or such a   *)
(* token with its scope claim rewritten (the signature no longer matches). *)

Rescope(token, scope) ==
    [payload |-> [sub |-> token.payload.sub, iat |-> token.payload.iat,
                  exp |-> token.payload.exp, scope |-> scope],
     signature |-> token.signature]

\* An access token passed off as a refresh token; any other token as an access token.
Tamper(token) ==
    IF "scope" \in DOMAIN token.payload /\ token.payload.scope = "access_token"
        THEN Rescope(token, "refresh_token")
        ELSE Rescope(token, "access_token")

Presentable == issued \cup {Tamper(t) : t \in issued}

ScopeOf(token) == IF "scope" \in DOMAIN token.payload THEN token.payload.scope ELSE "email"

Genuine(token) == token.signature = Sign(token.payload, SECRET_KEY_JWT)

NoBody == None

Response(op, status, detail, body) ==
    [op |-> op, args |-> None, status |-> status, detail |-> detail, body |-> body]

\* The response of a contacts route, with the caller it resolved and the id it addressed.
ContactResponse(op, user, contact_id, status, detail, body) ==
    [op |-> op, args |-> [user_id |-> user.id, contact_id |-> contact_id],
     status |-> status, detail |-> detail, body |-> body]

----------------------------------------------------------------------------
Init ==
    /\ users = <<>>
    /\ cache = <<>>
    /\ redis_up = TRUE
    /\ now = 0
    /\ ticks = 0
    /\ requests = 0
    /\ issued = {}
    /\ rotated = {}
    /\ by_login = {}
    /\ contacts = <<>>
    /\ next_contact_id = 1
    /\ inflight = EmptyBag
    /\ changed_at = [e \in Emails |-> 0]
    /\ resp = Response("init", 0, "", NoBody)

----------------------------------------------------------------------------
(* The auth routes *)

\* Mutant: the directory is not asked whether the email is taken.
signup_without_exist_check(email, password) ==
    /\ LET body == [email |-> email, password |-> get_password_hash(password)]
           new_user == create_user(body)
       IN  /\ users' = [e \in DOMAIN users \cup {email} |->
                          IF e = email THEN new_user ELSE users[e]]
           /\ issued' = issued \cup {send_email(new_user.email)}
           /\ resp' = Response("signup", 201, "", new_user)
    /\ UNCHANGED <<cache, rotated, by_login, contactVars, envVars>>

\* POST /auth/signup
signup(email, password) ==
    /\ IF UserExists(email)
        THEN /\ resp' = Response("signup", 409, "Account already exists", NoBody)
             /\ UNCHANGED <<users, issued>>
        ELSE LET body == [email |-> email, password |-> get_password_hash(password)]
                 new_user == create_user(body)
             IN  /\ users' = [e \in DOMAIN users \cup {email} |->
                                IF e = email THEN new_user ELSE users[e]]
                 /\ issued' = issued \cup {send_email(new_user.email)}
                 /\ resp' = Response("signup", 201, "", new_user)
    /\ UNCHANGED <<cache, rotated, by_login, contactVars, envVars>>

\* Mutant: a wrong password revokes the stored refresh token.
login_revoking_on_bad_password(username, password) ==
    /\ LET user == get_user_by_email(username)
       IN  IF user = None
            THEN /\ resp' = Response("login", 401, "Invalid email", NoBody)
                 /\ UNCHANGED <<users, issued, by_login>>
           ELSE IF ~user.confirmed
            THEN /\ resp' = Response("login", 401, "Email not confirmed", NoBody)
                 /\ UNCHANGED <<users, issued, by_login>>
           ELSE IF ~verify_password(password, user.password)
            THEN /\ resp' = Response("login", 401, "Invalid password", NoBody)
                 /\ users' = update_token(user.email, None)
                 /\ UNCHANGED <<issued, by_login>>
           ELSE LET access_token == create_access_token([sub |-> user.email], 0)
                    refresh_token == create_refresh_token([sub |-> user.email], 0)
                IN  /\ users' = update_token(user.email, refresh_token)
                    /\ issued' = issued \cup {access_token, refresh_token}
                    /\ by_login' = by_login \cup {refresh_token}
                    /\ resp' = Response("login", 200, "",
                                        [access_token |-> access_token,
                                         refresh_token |-> refresh_token,
                                         token_type |-> "bearer"])
    /\ UNCHANGED <<cache, rotated, contactVars, envVars>>

\* Mutant: the confirmed flag is not checked.
login_without_confirmed_check(username, password) ==
    /\ LET user == get_user_by_email(username)
       IN  IF user = None
            THEN /\ resp' = Response("login", 401, "Invalid email", NoBody)
                 /\ UNCHANGED <<users, issued, by_login>>
           ELSE IF ~verify_password(password, user.password)
            THEN /\ resp' = Response("login", 401, "Invalid password", NoBody)
                 /\ UNCHANGED <<users, issued, by_login>>
           ELSE LET access_token == create_access_token([sub |-> user.email], 0)
                    refresh_token == create_refresh_token([sub |-> user.email], 0)
                IN  /\ users' = [users EXCEPT ![user.email].refresh_token = refresh_token]
                    /\ issued' = issued \cup {access_token, refresh_token}
                    /\ by_login' = by_login \cup {refresh_token}
                    /\ resp' = Response("login", 200, "",
                                        [access_token |-> access_token,
                                         refresh_token |-> refresh_token,
                                         token_type |-> "bearer"])
    /\ UNCHANGED <<cache, rotated, contactVars, envVars>>

\* POST /auth/login
login(username, password) ==
    /\ LET user == get_user_by_email(username)
       IN  IF user = None
            THEN /\ resp' = Response("login", 401, "Invalid email", NoBody)
                 /\ UNCHANGED <<users, issued, by_login>>
           ELSE IF ~user.confirmed
            THEN /\ resp' = Response("login", 401, "Email not confirmed", NoBody)
                 /\ UNCHANGED <<users, issued, by_login>>
           ELSE IF ~verify_password(password, user.password)
            THEN /\ resp' = Response("login", 401, "Invalid password", NoBody)
                 /\ UNCHANGED <<users, issued, by_login>>
           ELSE LET access_token == create_access_token([sub |-> user.email], 0)
                    refresh_token == create_refresh_token([sub |-> user.email], 0)
                IN  /\ users' = update_token(user.email, refresh_token)
                    /\ issued' = issued \cup {access_token, refresh_token}
                    /\ by_login' = by_login \cup {refresh_token}
                    /\ resp' = Response("login", 200, "",
                                        [access_token |-> access_token,
                                         refresh_token |-> refresh_token,
                                         token_type |-> "bearer"])
    /\ UNCHANGED <<cache, rotated, contactVars, envVars>>

\* Mutant: the user is taken from the cache when it holds the email.
refresh_token_trusting_cache(token) ==
    /\ LET d == decode_refresh_token(token)
       IN  IF d.status # 200
            THEN /\ resp' = Response("refresh_token", d.status, d.detail, NoBody)
                 /\ UNCHANGED <<users, issued, rotated>>
           ELSE IF ~UserExists(d.email)
            THEN /\ resp' = Response("refresh_token", 500, "AttributeError", NoBody)
                 /\ UNCHANGED <<users, issued, rotated>>
           ELSE IF (IF cache_get(d.email) # None
                       THEN pickle_loads(cache_get(d.email)).refresh_token
                       ELSE users[d.email].refresh_token) # token
            THEN /\ users' = update_token(d.email, None)
                 /\ resp' = Response("refresh_token", 401,
                                     "Invalid refresh token", NoBody)
                 /\ UNCHANGED <<issued, rotated>>
           ELSE LET access_token == create_access_token([sub |-> d.email], 0)
                    new_refresh_token == create_refresh_token([sub |-> d.email], 0)
                IN  /\ users' = update_token(d.email, new_refresh_token)
                    /\ issued' = issued \cup {access_token, new_refresh_token}
                    /\ rotated' = rotated \cup {token}
                    /\ resp' = Response("refresh_token", 200, "",
                                        [access_token |-> access_token,
                                         refresh_token |-> new_refresh_token,
                                         token_type |-> "bearer"])
    /\ UNCHANGED <<cache, by_login, contactVars, envVars>>

\* GET /auth/refresh_token
refresh_token(token) ==
    /\ LET d == decode_refresh_token(token)
       IN  IF d.status # 200
            THEN /\ resp' = Response("refresh_token", d.status, d.detail, NoBody)
                 /\ UNCHANGED <<users, issued, rotated>>
           ELSE IF ~UserExists(d.email)
            \* user is None: user.refresh_token raises AttributeError
            THEN /\ resp' = Response("refresh_token", 500, "AttributeError", NoBody)
                 /\ UNCHANGED <<users, issued, rotated>>
           ELSE IF users[d.email].refresh_token # token
            THEN /\ users' = update_token(d.email, None)
                 /\ resp' = Response("refresh_token", 401,
                                     "Invalid refresh token", NoBody)
                 /\ UNCHANGED <<issued, rotated>>
           ELSE LET access_token == create_access_token([sub |-> d.email], 0)
                    new_refresh_token == create_refresh_token([sub |-> d.email], 0)
                IN  /\ users' = update_token(d.email, new_refresh_token)
                    /\ issued' = issued \cup {access_token, new_refresh_token}
                    /\ rotated' = rotated \cup {token}
                    /\ resp' = Response("refresh_token", 200, "",
                                        [access_token |-> access_token,
                                         refresh_token |-> new_refresh_token,
                                         token_type |-> "bearer"])
    /\ UNCHANGED <<cache, by_login, contactVars, envVars>>

\* GET /auth/confirmed_email/{token}
confirmed_email_route(token) ==
    /\ LET d == get_email_from_token(token)
       IN  IF d.status # 200
            THEN /\ resp' = Response("confirmed_email", d.status, d.detail, NoBody)
                 /\ UNCHANGED users
           ELSE IF ~UserExists(d.email)
            THEN /\ resp' = Response("confirmed_email", 400,
                                     "Verification error", NoBody)
                 /\ UNCHANGED users
           ELSE IF users[d.email].confirmed
            THEN /\ resp' = Response("confirmed_email", 200,
                                     "Your email is already confirmed", NoBody)
                 /\ UNCHANGED users
           ELSE /\ users' = confirmed_email(d.email)
                /\ resp' = Response("confirmed_email", 200,
                                    "Email confirmed", NoBody)
    /\ UNCHANGED <<cache, issued, rotated, by_login, contactVars, envVars>>

\* POST /auth/request_email
request_email(email) ==
    /\ IF ~UserExists(email)
        \* user is None: user.confirmed raises AttributeError
        THEN /\ resp' = Response("request_email", 500, "AttributeError", NoBody)
             /\ UNCHANGED issued
       ELSE IF users[email].confirmed
        THEN /\ resp' = Response("request_email", 200,
                                 "Your email is already confirmed", NoBody)
             /\ UNCHANGED issued
       ELSE /\ issued' = issued \cup {send_email(users[email].email)}
            /\ resp' = Response("request_email", 200,
                                "Check your email for confirmation.", NoBody)
    /\ UNCHANGED <<users, cache, rotated, by_login, contactVars, envVars>>

\* GET /users/me
me(token) ==
    /\ LET r == get_current_user(token)
       IN  /\ cache' = r.cache
           /\ resp' = Response("me", r.status, r.detail, r.user)
    /\ UNCHANGED <<users, issued, rotated, by_login, contactVars, envVars>>

\* cloudinary.uploader.upload + CloudinaryImage.build_url: the URL carries the
\* version the asset host assigned to the upload (its upload timestamp).
build_url(public_id, version) == <<"cloudinary", public_id, version>>

\* Mutant: the row is written back with the column default of confirmed.
update_avatar_url_unconfirming(email, url) ==
    [users EXCEPT ![email].avatar = url, ![email].confirmed = FALSE]

\* users/crud.py: the row is fetched by email, its avatar set and committed.
update_avatar_url(email, url) == [users EXCEPT ![email].avatar = url]

\* PATCH /users/avatar.  uploaded = FALSE is an upload the asset host refuses:
\* the exception leaves the handler before the directory is written.
avatar(token, uploaded) ==
    /\ LET r == get_current_user(token)
       IN  IF r.status # 200
            THEN /\ resp' = Response("avatar", r.status, r.detail, NoBody)
                 /\ cache' = r.cache
                 /\ UNCHANGED users
           ELSE IF ~uploaded
            THEN /\ resp' = Response("avatar", 500, "cloudinary.exceptions.Error", NoBody)
                 /\ cache' = r.cache
                 /\ UNCHANGED users
           ELSE LET res_url == build_url(r.user.email, now)
                    directory == update_avatar_url(r.user.email, res_url)
                    user == directory[r.user.email]
                IN  /\ users' = directory
                    /\ cache' = cache_set_expire(r.cache, user.email,
                                                 pickle_dumps(user), CACHE_TTL)
                    /\ resp' = Response("avatar", 200, "", user)
    /\ UNCHANGED <<issued, rotated, by_login, contactVars, envVars>>

\* The clock advances; redis drops the keys whose expiry has passed.
Tick(delta) ==
    /\ ticks < MaxTicks
    /\ now' = now + delta
    /\ ticks' = ticks + 1
    /\ cache' = [k \in {j \in DOMAIN cache : now + delta < cache[j].expire_at} |-> cache[k]]
    /\ resp' = Response("tick", 0, "", NoBody)
    /\ UNCHANGED <<users, issued, rotated, by_login, contactVars, requests, redis_up,
                   taskVars>>

\* One more request is served, from its arrival to its response: no task is
\* left suspended.
Serve == requests < MaxRequests /\ requests' = requests + 1 /\ UNCHANGED taskVars

Signup == Serve /\ \E email \in Emails, password \in SignupPasswords : signup(email, password)
Login == Serve /\ \E username \in Emails, password \in Passwords : login(username, password)
RefreshToken == Serve /\ \E token \in Presentable : refresh_token(token)
ConfirmedEmail == Serve /\ \E token \in Presentable : confirmed_email_route(token)
RequestEmail == Serve /\ \E email \in Emails : request_email(email)
Me == Serve /\ \E token \in Presentable : me(token)
Avatar == Serve /\ \E token \in Presentable, uploaded \in BOOLEAN : avatar(token, uploaded)
Advance == \E delta \in Deltas : Tick(delta)

Next ==
    \/ Signup
    \/ Login
    \/ RefreshToken
    \/ ConfirmedEmail
    \/ RequestEmail
    \/ Me
    \/ Avatar
    \/ Advance

Spec == Init /\ [][Next]_vars

\* The redis server becomes unreachable, or reachable again; its keys survive.
Outage ==
    /\ redis_up' = ~redis_up
    /\ resp' = Response("redis", 0, "", NoBody)
    /\ UNCHANGED <<users, cache, issued, rotated, by_login, contactVars, requests,
                   now, ticks, taskVars>>

NextOutage ==
    \/ Next
    \/ Outage

SpecOutage == Init /\ [][NextOutage]_vars

----------------------------------------------------------------------------
(* The contacts routes.  Each resolves the caller with                     *)
(* Depends(auth_service.get_current_user) and then calls the directory.    *)

Ann == [first_name |-> <<"A", "n", "n">>, last_name |-> <<"L", "e", "e">>,
        email |-> <<"a", "l", "@", "x">>, phone_number |-> "111",
        date_of_birth |-> [year |-> 1990, month |-> 1, day |-> 2],
        additional_data |-> "friend", fields_set |-> ContactColumns]
Bob == [first_name |-> <<"B", "o", "b">>, last_name |-> <<"R", "a", "y">>,
        email |-> <<"b", "r", "@", "x">>, phone_number |-> "222",
        date_of_birth |-> [year |-> 1985, month |-> 12, day |-> 30],
        additional_data |-> "work", fields_set |-> ContactColumns]
ContactBodies == {Ann, Bob}
ContactIds == 1 .. MaxContacts
Limits == {10}
Offsets == {0, 1}
Queries == {<<"a", "n">>, <<"_", "o">>}
Todays == {[year |-> 2024, month |-> 12, day |-> 26], [year |-> 2025, month |-> 2, day |-> 25]}

\* The caller could not be resolved: the dependency's error is the response.
Rejected(op, r) ==
    /\ resp' = Response(op, r.status, r.detail, NoBody)
    /\ cache' = r.cache
    /\ UNCHANGED contactVars

\* GET /contacts/
get_contacts_route(token, limit, offset) ==
    /\ LET r == get_current_user(token)
       IN  IF r.status # 200 THEN Rejected("get_contacts", r)
           ELSE /\ cache' = r.cache
                /\ resp' = ContactResponse("get_contacts", r.user, 0, 200, "",
                                           get_contacts(limit, offset, r.user))
                /\ UNCHANGED contactVars
    /\ UNCHANGED <<users, issued, rotated, by_login, envVars>>

\* GET /contacts/{contact_id}
get_contact_route(token, contact_id) ==
    /\ LET r == get_current_user(token)
       IN  IF r.status # 200 THEN Rejected("get_contact", r)
           ELSE LET contact == get_contact(contact_id, r.user)
                IN  /\ cache' = r.cache
                    /\ resp' = IF contact = None
                                THEN ContactResponse("get_contact", r.user, contact_id,
                                                     404, "NOT FOUND", None)
                                ELSE ContactResponse("get_contact", r.user, contact_id,
                                                     200, "", contact)
                    /\ UNCHANGED contactVars
    /\ UNCHANGED <<users, issued, rotated, by_login, envVars>>

\* POST /contacts/
create_contact_route(token, body) ==
    /\ next_contact_id <= MaxContacts
    /\ LET r == get_current_user(token)
       IN  IF r.status # 200 THEN Rejected("create_contact", r)
           ELSE LET c == create_contact(body, r.user)
                IN  IF c.error # ""
                        THEN /\ cache' = r.cache
                             /\ resp' = ContactResponse("create_contact", r.user, 0,
                                                        500, c.error, None)
                             /\ UNCHANGED contactVars
                    ELSE /\ cache' = r.cache
                         /\ contacts' = c.contacts
                         /\ next_contact_id' = next_contact_id + 1
                         /\ resp' = ContactResponse("create_contact", r.user, 0,
                                                    201, "", c.result)
    /\ UNCHANGED <<users, issued, rotated, by_login, envVars>>

\* PUT /contacts/{contact_id}
update_contact_route(token, contact_id, body) ==
    /\ LET r == get_current_user(token)
       IN  IF r.status # 200 THEN Rejected("update_contact", r)
           ELSE LET c == update_contact(contact_id, body, r.user)
                IN  /\ cache' = r.cache
                    /\ contacts' = c.contacts
                    /\ resp' = IF c.error # ""
                                THEN ContactResponse("update_contact", r.user, contact_id,
                                                     500, c.error, None)
                               ELSE IF c.result = None
                                THEN ContactResponse("update_contact", r.user, contact_id,
                                                     404, "NOT FOUND", None)
                                ELSE ContactResponse("update_contact", r.user, contact_id,
                                                     200, "", c.result)
                    /\ UNCHANGED next_contact_id
    /\ UNCHANGED <<users, issued, rotated, by_login, envVars>>

\* DELETE /contacts/{contact_id}: 204 whether or not a contact was found.
delete_contact_route(token, contact_id) ==
    /\ LET r == get_current_user(token)
       IN  IF r.status # 200 THEN Rejected("delete_contact", r)
           ELSE LET c == delete_contact(contact_id, r.user)
                IN  /\ cache' = r.cache
                    /\ contacts' = c.contacts
                    /\ resp' = ContactResponse("delete_contact", r.user, contact_id,
                                               204, "", c.result)
                    /\ UNCHANGED next_contact_id
    /\ UNCHANGED <<users, issued, rotated, by_login, envVars>>

\* GET /contacts/search/{query}
search_contacts_route(token, query) ==
    /\ LET r == get_current_user(token)
       IN  IF r.status # 200 THEN Rejected("search_contacts", r)
           ELSE /\ cache' = r.cache
                /\ resp' = ContactResponse("search_contacts", r.user, 0, 200, "",
                                           search_contacts(query, r.user))
                /\ UNCHANGED contactVars
    /\ UNCHANGED <<users, issued, rotated, by_login, envVars>>

\* GET /contacts/upcoming_birthdays/ ; today is date.today() at the call.
upcoming_birthdays(token, today) ==
    /\ LET r == get_current_user(token)
       IN  IF r.status # 200 THEN Rejected("upcoming_birthdays", r)
           ELSE /\ cache' = r.cache
                /\ resp' = ContactResponse("upcoming_birthdays", r.user, 0, 200, "",
                                           congratulate(today, r.user))
                /\ UNCHANGED contactVars
    /\ UNCHANGED <<users, issued, rotated, by_login, envVars>>

GetContacts ==
    Serve /\ \E token \in Presentable, limit \in Limits, offset \in Offsets :
                get_contacts_route(token, limit, offset)
GetContact ==
    Serve /\ \E token \in Presentable, contact_id \in ContactIds :
                get_contact_route(token, contact_id)
CreateContact ==
    Serve /\ \E token \in Presentable, body \in ContactBodies :
                create_contact_route(token, body)
UpdateContact ==
    Serve /\ \E token \in Presentable, contact_id \in ContactIds, body \in ContactBodies :
                update_contact_route(token, contact_id, body)
DeleteContact ==
    Serve /\ \E token \in Presentable, contact_id \in ContactIds :
                delete_contact_route(token, contact_id)
SearchContacts ==
    Serve /\ \E token \in Presentable, query \in Queries :
                search_contacts_route(token, query)
UpcomingBirthdays ==
    Serve /\ \E token \in Presentable, today \in Todays :
                upcoming_birthdays(token, today)

\* The contact directory in use: every user of Emails has signed up, confirmed
\* the address and logged in during second 0 (six requests of Spec).
SignedUp(email, id) ==
    [id |-> id, email |-> email, password |-> get_password_hash("pw-one"),
     avatar |-> <<"gravatar", email>>, refresh_token |-> None, confirmed |-> FALSE]

UserId(email) == IF email = "a@x.com" THEN 1 ELSE 2

ContactsStart ==
    /\ now = 0
    /\ ticks = 0
    /\ users = [e \in Emails |->
                 [SignedUp(e, UserId(e)) EXCEPT
                    !.confirmed = TRUE,
                    !.refresh_token = create_refresh_token([sub |-> e], 0)]]
    /\ cache = <<>>
    /\ redis_up = TRUE
    /\ issued = UNION {{create_email_token([sub |-> e]),
                        create_access_token([sub |-> e], 0),
                        create_refresh_token([sub |-> e], 0)} : e \in Emails}
    /\ rotated = {}
    /\ by_login = {create_refresh_token([sub |-> e], 0) : e \in Emails}
    /\ contacts = <<>>
    /\ next_contact_id = 1
    /\ inflight = EmptyBag
    /\ changed_at = [e \in Emails |-> 0]
    /\ resp = Response("login", 200, "",
                       [access_token |-> create_access_token([sub |-> "b@x.com"], 0),
                        refresh_token |-> create_refresh_token([sub |-> "b@x.com"], 0),
                        token_type |-> "bearer"])

InitContacts == ContactsStart /\ requests = 0

NextContacts ==
    \/ GetContacts
    \/ GetContact
    \/ CreateContact
    \/ UpdateContact
    \/ DeleteContact
    \/ SearchContacts
    \/ UpcomingBirthdays

SpecContacts == InitContacts /\ [][NextContacts]_vars

\* ContactsStart is a state of Spec: TLC reaches it there when asked for ~ContactsStart.
ContactsStartUnreached == ~ContactsStart

----------------------------------------------------------------------------
(* Vocabulary of the properties *)

Subject(token) == token.payload.sub

Unexpired(token) == ~(token.payload.exp < now)

\* A refresh request presenting this token would be served with a new pair.
RefreshAccepts(token) ==
    /\ decode_refresh_token(token).status = 200
    /\ UserExists(Subject(token))
    /\ users[Subject(token)].refresh_token = token

IsTokenPair(body) == DOMAIN body = {"access_token", "refresh_token", "token_type"}

----------------------------------------------------------------------------
(* C1: access and refresh tokens are not interchangeable.  In every        *)
(* reachable state, every issued access token is rejected by               *)
(* decode_refresh_token with 401 and every issued refresh token is         *)
(* rejected by get_current_user with 401.                                  *)
C1_AccessRefreshNotInterchangeable ==
    \A t \in issued :
        /\ ScopeOf(t) = "access_token" => decode_refresh_token(t).status = 401
        /\ ScopeOf(t) = "refresh_token" => get_current_user(t).status = 401

\* An unexpired access token was presented to the refresh route and was
\* turned away for its scope, while an unexpired refresh token exists too.
C1_Witness ==
    /\ resp.op = "refresh_token"
    /\ resp.status = 401
    /\ resp.detail = "Invalid scope for token"
    /\ \E t \in issued : ScopeOf(t) = "refresh_token" /\ Unexpired(t)

(* C2: scope separation for all three scopes.  A token issued under one    *)
(* scope is never accepted (status 200) by the decoder of another scope.   *)
C2_ScopeSeparation ==
    \A t \in issued :
        /\ ScopeOf(t) # "refresh_token" => decode_refresh_token(t).status # 200
        /\ ScopeOf(t) # "access_token" => get_current_user(t).status # 200
        /\ ScopeOf(t) # "email" => get_email_from_token(t).status # 200

(* C3: get_current_user answers every presentable bearer token with a user *)
(* (200) or with 401, and with a user only for a genuine, unexpired,       *)
(* access-scoped token of a registered user.                               *)
C3_UserOr401 ==
    \A t \in Presentable :
        LET r == get_current_user(t)
        IN  /\ r.status \in {200, 401}
            /\ r.status = 200 =>
                /\ Genuine(t) /\ Unexpired(t)
                /\ ScopeOf(t) = "access_token"
                /\ UserExists(Subject(t))

(* C4: refresh rotation.  A refresh request that presents a token already  *)
(* used in a successful refresh fails with 401.                            *)
C4_RefreshRotation ==
    [][resp'.op = "refresh_token" =>
        \A T \in rotated : refresh_token(T) => resp'.status = 401
      ]_vars

C6_UnconfirmedLoginFails ==
    [][resp'.op = "login" =>
        \A e \in Emails, p \in Passwords :
            (login(e, p) /\ UserExists(e) /\ ~users[e].confirmed)
                => /\ resp'.status = 401
                   /\ resp'.detail = "Email not confirmed"
                   /\ resp'.body = NoBody
                   /\ users' = users
                   /\ issued' = issued
      ]_vars

\* An unconfirmed registered user has just been refused at login.
C6_Witness ==
    /\ resp.op = "login"
    /\ resp.detail = "Email not confirmed"
    /\ \E e \in DOMAIN users : ~users[e].confirmed

(* C7: after a successful login or refresh, the stored refresh token is    *)
(* the one returned, the access token is access-scoped, the refresh token  *)
(* refresh-scoped, both are genuine with the user's email as subject, and  *)
(* token_type is 'bearer'.                                                 *)
TokenPairFor(body, email, directory) ==
    /\ IsTokenPair(body)
    /\ directory[email].refresh_token = body.refresh_token
    /\ ScopeOf(body.access_token) = "access_token"
    /\ ScopeOf(body.refresh_token) = "refresh_token"
    /\ Genuine(body.access_token) /\ Genuine(body.refresh_token)
    /\ Subject(body.access_token) = email
    /\ Subject(body.refresh_token) = email
    /\ directory[email].email = email
    /\ body.token_type = "bearer"

C7_StoredEqualsReturned ==
    [][/\ (resp'.op = "login" /\ resp'.status = 200) =>
            \A e \in Emails, p \in Passwords :
                login(e, p) => TokenPairFor(resp'.body, e, users')
       /\ (resp'.op = "refresh_token" /\ resp'.status = 200) =>
            \A T \in Presentable :
                refresh_token(T) => TokenPairFor(resp'.body, Subject(T), users')
      ]_vars

\* A refresh has just succeeded (after the login that issued its token).
C7_Witness ==
    /\ resp.op = "refresh_token"
    /\ resp.status = 200
    /\ by_login # {}

(* C8: one live refresh token per user.  After a further successful login  *)
(* of a user, no refresh token returned by an earlier login of that user   *)
(* is accepted by refresh.                                                 *)
C8_EarlierLoginTokenDead ==
    [][(resp'.op = "login" /\ resp'.status = 200) =>
        \A e \in Emails, p \in Passwords :
            login(e, p) => \A T \in by_login : Subject(T) = e => ~(RefreshAccepts(T))'
      ]_vars

(* C9: cross-user isolation by id.  When get, update or delete by id is    *)
(* called by a user for a contact id that exists under another user, the   *)
(* directory returns no contact and the contacts table is unchanged.       *)
C9_CrossUserIsolation ==
    [][( /\ resp'.op \in {"get_contact", "update_contact", "delete_contact"}
         /\ resp'.args # None
         /\ resp'.args.contact_id \in DOMAIN contacts
         /\ contacts[resp'.args.contact_id].user_id # resp'.args.user_id )
        => /\ resp'.body = None
           /\ contacts' = contacts
      ]_vars

\* A user has just addressed an update to a contact of another user and got 404.
C9_Witness ==
    /\ resp.op = "update_contact"
    /\ resp.status = 404
    /\ resp.args.contact_id \in DOMAIN contacts
    /\ contacts[resp.args.contact_id].user_id # resp.args.user_id

(* C10: every contact returned by get_contacts, search_contacts and        *)
(* upcoming_birthdays is a row of the contacts table owned by the caller.  *)
C10_CollectionsOwnedByCaller ==
    ( /\ resp.op \in {"get_contacts", "search_contacts", "upcoming_birthdays"}
      /\ resp.args # None )
    => \A i \in 1 .. Len(resp.body) :
        /\ resp.body[i].user_id = resp.args.user_id
        /\ resp.body[i].id \in DOMAIN contacts
        /\ contacts[resp.body[i].id] = resp.body[i]

\* A search returned contacts to its caller while another user has contacts too.
C10_Witness ==
    /\ resp.op = "search_contacts"
    /\ resp.args # None
    /\ Len(resp.body) > 0
    /\ \E i \in DOMAIN contacts : contacts[i].user_id # resp.args.user_id

----------------------------------------------------------------------------
\* The user's cache entry is absent (or past its expiry) or equals the
\* directory record.
CacheAgrees(u) ==
    \/ cache_get(u) = None
    \/ pickle_loads(cache_get(u)) = users[u]

(* C11: every operation that changes a User record (login and refresh     *)
(* writing refresh_token, confirmation writing confirmed, avatar update    *)
(* writing avatar) invalidates or overwrites that user's cache entry: when *)
(* it completes, the entry is absent or equal to the directory record.     *)
C11_WritesRefreshCache ==
    [][\A u \in DOMAIN users :
          users'[u] # users[u] => (CacheAgrees(u))'
      ]_vars

(* C12: with the cache unavailable, get_current_user still resolves the    *)
(* user of a valid access token from the directory and the request does    *)
(* not fail.                                                               *)
C12_OutageFallsBackToDirectory ==
    /\ \A t \in issued :
          ( /\ ~redis_up
            /\ Genuine(t) /\ Unexpired(t) /\ ScopeOf(t) = "access_token"
            /\ UserExists(Subject(t)) )
              => /\ get_current_user(t).status = 200
                 /\ get_current_user(t).user = users[Subject(t)]
    /\ resp.detail # "redis.exceptions.ConnectionError"

\* The sessions of users who are signed up, confirmed and logged in: further
\* logins, identity lookups, and the clock.
NextSession ==
    \/ Login
    \/ Me
    \/ Advance

SpecSession == InitContacts /\ [][NextSession]_vars

----------------------------------------------------------------------------
(* The token codec on its own: tokens of every scope are created with the  *)
(* default and with custom lifetimes, the clock advances, and the tokens   *)
(* are handed to the three decoders.                                       *)

\* expires_delta in seconds; 0 is the default lifetime of the scope.
Ttls == {0, 1, REFRESH_TTL + 2}

TokenDeltas == {1, ACCESS_TTL + 1, REFRESH_TTL + 1}

Scopes == {"access_token", "refresh_token", "email"}

create_token(scope, sub, expires_delta) ==
    IF scope = "access_token" THEN create_access_token([sub |-> sub], expires_delta)
    ELSE IF scope = "refresh_token" THEN create_refresh_token([sub |-> sub], expires_delta)
    ELSE create_email_token([sub |-> sub])

\* Both users have signed up and confirmed their address at second 0, when a
\* token of every scope and lifetime is created for each of them.
InitTokens ==
    /\ now = 0
    /\ ticks = 0
    /\ requests = 0
    /\ users = [e \in Emails |-> [SignedUp(e, UserId(e)) EXCEPT !.confirmed = TRUE]]
    /\ cache = <<>>
    /\ redis_up = TRUE
    /\ issued = {create_token(scope, sub, expires_delta) :
                    scope \in Scopes, sub \in Emails, expires_delta \in Ttls}
    /\ rotated = {}
    /\ by_login = {}
    /\ contacts = <<>>
    /\ next_contact_id = 1
    /\ inflight = EmptyBag
    /\ changed_at = [e \in Emails |-> 0]
    /\ resp = Response("confirmed_email", 200, "Email confirmed", NoBody)

DecodeRefreshToken ==
    /\ \E token \in Presentable :
          LET r == decode_refresh_token(token)
          IN  resp' = Response("decode_refresh_token", r.status, r.detail, r.email)
    /\ UNCHANGED <<users, cache, issued, rotated, by_login, contactVars, envVars,
                   requests, taskVars>>

GetEmailFromToken ==
    /\ \E token \in Presentable :
          LET r == get_email_from_token(token)
          IN  resp' = Response("get_email_from_token", r.status, r.detail, r.email)
    /\ UNCHANGED <<users, cache, issued, rotated, by_login, contactVars, envVars,
                   requests, taskVars>>

AdvanceTokens == \E delta \in TokenDeltas : Tick(delta)

NextTokens ==
    \/ DecodeRefreshToken
    \/ GetEmailFromToken
    \/ Me
    \/ AdvanceTokens

SpecTokens == InitTokens /\ [][NextTokens]_vars

\* The decoder of the token's own scope accepts it and yields this subject.
DecodesTo(token, sub) ==
    IF ScopeOf(token) = "access_token"
        THEN /\ get_current_user(token).status = 200
             /\ get_current_user(token).user.email = sub
    ELSE IF ScopeOf(token) = "refresh_token"
        THEN decode_refresh_token(token) = [status |-> 200, detail |-> "", email |-> sub]
    ELSE get_email_from_token(token) = [status |-> 200, detail |-> "", email |-> sub]

(* C14: a token presented after its expiry instant (issue time + ttl; by   *)
(* default 15 minutes for access, 7 days for refresh and email tokens) is  *)
(* rejected although its signature is valid: get_current_user and          *)
(* decode_refresh_token fail with 401, get_email_from_token with 422.      *)
C14_ExpiredTokensRejected ==
    /\ \A t \in issued :
          /\ Genuine(t)
          /\ t.payload.exp < now
                => /\ get_current_user(t).status = 401
                   /\ decode_refresh_token(t).status = 401
                   /\ get_email_from_token(t).status = 422
    /\ \A sub \in Emails :
          /\ create_token("access_token", sub, 0).payload.exp = now + 15 * 60
          /\ create_token("refresh_token", sub, 0).payload.exp = now + 7 * 24 * 3600
          /\ create_token("email", sub, 0).payload.exp = now + 7 * 24 * 3600
          /\ \A scope \in {"access_token", "refresh_token"}, ttl \in Ttls \ {0} :
                create_token(scope, sub, ttl).payload.exp = now + ttl

\* An access token of default lifetime has just been refused by
\* get_current_user one second after its 15 minutes, while the refresh token
\* of the same login is still alive.
C14_Witness ==
    /\ resp.op = "me"
    /\ resp.status = 401
    /\ now = ACCESS_TTL + 1
    /\ \E t, r \in issued :
          /\ ScopeOf(t) = "access_token" /\ t.payload.exp = ACCESS_TTL
          /\ ScopeOf(r) = "refresh_token" /\ Subject(r) = Subject(t)
          /\ Unexpired(r)

(* C15: round trip.  For every subject and scope, a token issued with      *)
(* ttl > 0 and decoded before its expiry by the decoder of its scope       *)
(* yields exactly the subject it was issued for.                           *)
C15_RoundTrip ==
    /\ \A sub \in Emails, scope \in Scopes, ttl \in Ttls :
          /\ Subject(create_token(scope, sub, ttl)) = sub
          /\ DecodesTo(create_token(scope, sub, ttl), sub)
    /\ \A t \in issued : Unexpired(t) => DecodesTo(t, Subject(t))

\* A refresh token created with a lifetime of one second is decoded in the
\* last second of its life, and a token of every scope has been created.
C15_Witness ==
    /\ resp.op = "decode_refresh_token"
    /\ resp.status = 200
    /\ \E t \in issued :
          /\ ScopeOf(t) = "refresh_token"
          /\ t.payload.exp = t.payload.iat + 1
          /\ now = t.payload.exp
          /\ resp.body = Subject(t)

C17_ConfirmationIdempotent ==
    [][resp'.op = "confirmed_email" =>
        \A T \in Presentable :
            ( /\ confirmed_email_route(T)
              /\ get_email_from_token(T).status = 200
              /\ UserExists(Subject(T)) )
            => IF users[Subject(T)].confirmed
                THEN /\ users' = users
                     /\ resp'.status = 200
                     /\ resp'.detail = "Your email is already confirmed"
               ELSE /\ users' = [users EXCEPT ![Subject(T)].confirmed = TRUE]
                    /\ resp'.status = 200
                    /\ resp'.detail = "Email confirmed"
      ]_vars

\* A second confirmation has been answered with the distinct message, the
\* user holding two different confirmation tokens.
C17_Witness ==
    /\ resp.op = "confirmed_email"
    /\ resp.status = 200
    /\ resp.detail = "Your email is already confirmed"
    /\ \E t1, t2 \in issued :
          /\ t1 # t2
          /\ ScopeOf(t1) = "email" /\ ScopeOf(t2) = "email"
          /\ Subject(t1) = Subject(t2)
          /\ users[Subject(t1)].confirmed

(* C18: signup-to-login ordering.  A user created by signup has            *)
(* confirmed = false and no refresh token; every login before the          *)
(* confirmation fails with 401 'Email not confirmed'; once a confirmation  *)
(* with a valid token has set confirmed = true, login with the correct     *)
(* password succeeds and returns {access_token, refresh_token,             *)
(* token_type: 'bearer'}.                                                  *)
C18_SignupConfirmLogin ==
    [][/\ \A e \in Emails, p \in SignupPasswords :
            (signup(e, p) /\ ~UserExists(e))
               => /\ resp'.status = 201
                  /\ users'[e].confirmed = FALSE
                  /\ users'[e].refresh_token = None
                  /\ users'[e].password = get_password_hash(p)
       /\ \A e \in Emails, p \in Passwords :
            (login(e, p) /\ UserExists(e))
               => IF ~users[e].confirmed
                    THEN /\ resp'.status = 401
                         /\ resp'.detail = "Email not confirmed"
                         /\ users'[e].refresh_token = None
                  ELSE users[e].password = get_password_hash(p)
                          => /\ resp'.status = 200
                             /\ DOMAIN resp'.body
                                  = {"access_token", "refresh_token", "token_type"}
                             /\ resp'.body.token_type = "bearer"
       /\ \A u \in DOMAIN users :
            /\ users[u].confirmed => users'[u].confirmed
            /\ (~users[u].confirmed /\ users'[u].confirmed)
                  => /\ resp'.op = "confirmed_email"
                     /\ resp'.detail = "Email confirmed"
                     /\ \E T \in Presentable :
                           /\ confirmed_email_route(T)
                           /\ Genuine(T) /\ Unexpired(T) /\ Subject(T) = u
      ]_vars

\* The whole scenario has run for one user: refused before the
\* confirmation, then confirmed, then logged in with a bearer pair, while
\* another user who signed up is still unconfirmed and has no token.
C18_Witness ==
    /\ resp.op = "login"
    /\ resp.status = 200
    /\ resp.body.token_type = "bearer"
    /\ \E u, v \in DOMAIN users :
          /\ users[u].confirmed
          /\ users[u].refresh_token = resp.body.refresh_token
          /\ ~users[v].confirmed
          /\ users[v].refresh_token = None

(* C19: signup with an email that already exists fails with 409 'Account   *)
(* already exists' and creates or changes no user record; signup with a    *)
(* new email creates exactly one user record, with that email.             *)
C19_DuplicateSignupConflict ==
    [][resp'.op = "signup" =>
        \A e \in Emails, p \in SignupPasswords :
            signup(e, p)
               => IF UserExists(e)
                    THEN /\ resp'.status = 409
                         /\ resp'.detail = "Account already exists"
                         /\ users' = users
                  ELSE /\ resp'.status = 201
                       /\ DOMAIN users' = DOMAIN users \cup {e}
                       /\ users'[e].email = e
                       /\ \A u \in DOMAIN users : users'[u] = users[u]
      ]_vars

\* A second signup with a registered email has just been refused; the first
\* account is as it was created or as its owner has used it since.
C19_Witness ==
    /\ resp.op = "signup"
    /\ resp.status = 409
    /\ resp.detail = "Account already exists"
    /\ DOMAIN users # {}

(* C20: every contact operation that addresses a contact id for which the  *)
(* caller owns no contact (get, update and delete by id) responds with     *)
(* 404 Not Found and leaves the contact directory unchanged.               *)
C20_MissingContactIs404 ==
    [][( /\ resp'.op \in {"get_contact", "update_contact", "delete_contact"}
         /\ resp'.args # None
         /\ ~( /\ resp'.args.contact_id \in DOMAIN contacts
               /\ contacts[resp'.args.contact_id].user_id = resp'.args.user_id ) )
        => /\ resp'.status = 404
           /\ contacts' = contacts
      ]_vars

----------------------------------------------------------------------------
(* The birthday query on its own: contacts with birthdays around the turn  *)
(* of a month and of the year are created, and the query is run on         *)
(* several days.                                                           *)

Birthdays ==
    {[year |-> 1990, month |-> 1, day |-> 2],
     [year |-> 1985, month |-> 12, day |-> 30],
     [year |-> 1991, month |-> 1, day |-> 16],
     [year |-> 1991, month |-> 1, day |-> 18],
     [year |-> 1988, month |-> 3, day |-> 1]}

BirthdayBodies == {[Ann EXCEPT !.date_of_birth = d] : d \in Birthdays}

\* date.today()
BirthdayTodays ==
    Todays \cup {[year |-> 2025, month |-> 1, day |-> 10],
                 [year |-> 2024, month |-> 2, day |-> 25]}

CreateBirthdayContact ==
    Serve /\ \E token \in Presentable, body \in BirthdayBodies :
                create_contact_route(token, body)

UpcomingBirthdaysOn ==
    Serve /\ \E token \in Presentable, today \in BirthdayTodays :
                upcoming_birthdays(token, today)

NextBirthdays ==
    \/ CreateBirthdayContact
    \/ UpcomingBirthdaysOn

SpecBirthdays == InitContacts /\ [][NextBirthdays]_vars

\* The birthday (month and day) falls on one of the days today .. today + 7.
InWindow(date_of_birth, today) ==
    \E k \in 0 .. 7 :
        /\ AddDays(today, k).month = date_of_birth.month
        /\ AddDays(today, k).day = date_of_birth.day

(* C21: upcoming-birthday completeness.  For every value of today's date,  *)
(* every contact of the caller whose birthday (month and day) falls on one *)
(* of the days today .. today + 7 is returned by upcoming_birthdays, also  *)
(* when the window crosses a month or year boundary.                       *)
C21_BirthdaysComplete ==
    [][resp'.op = "upcoming_birthdays" =>
        \A T \in Presentable, today \in BirthdayTodays :
            (upcoming_birthdays(T, today) /\ resp'.status = 200)
            => \A i \in DOMAIN contacts :
                  ( /\ contacts[i].user_id = resp'.args.user_id
                    /\ InWindow(contacts[i].date_of_birth, today) )
                  => \E n \in 1 .. Len(resp'.body) : resp'.body[n] = contacts[i]
      ]_vars

(* C22: upcoming-birthday soundness.  For every value of today's date,     *)
(* upcoming_birthdays returns no contact whose birthday (month and day)    *)
(* lies outside today .. today + 7: a birthday 8 days out and a birthday   *)
(* earlier in the current month are both excluded.                         *)
C22_BirthdaysSound ==
    [][resp'.op = "upcoming_birthdays" =>
        \A T \in Presentable, today \in BirthdayTodays :
            (upcoming_birthdays(T, today) /\ resp'.status = 200)
            => \A n \in 1 .. Len(resp'.body) :
                  InWindow(resp'.body[n].date_of_birth, today)
      ]_vars

----------------------------------------------------------------------------
\* limit and offset as the directory function takes them (the route only
\* lets limits of 10 and more through).
CrudLimits == {1, 2, 10}
CrudOffsets == 0 .. 3

\* The ids of the contacts a user owns.
OwnedBy(user) == {i \in DOMAIN contacts : contacts[i].user_id = user.id}

Min(a, b) == IF a < b THEN a ELSE b

(* C23: get_contacts(limit, offset) returns only the caller's contacts,    *)
(* skipping the first offset of them and returning at most limit; for a    *)
(* user with zero contacts it returns an empty list (HTTP 200), not an     *)
(* error.                                                                  *)
C23_GetContactsPage ==
    /\ \A e \in DOMAIN users, limit \in CrudLimits, offset \in CrudOffsets :
          LET rows == get_contacts(limit, offset, users[e])
              all == get_contacts(MaxContacts + 1, 0, users[e])
              own == OwnedBy(users[e])
              rest == IF Cardinality(own) > offset THEN Cardinality(own) - offset ELSE 0
          IN  /\ Len(rows) = Min(limit, rest)
              /\ Len(all) = Cardinality(own)
              /\ \A n \in 1 .. Len(rows) :
                    /\ rows[n].id \in own
                    /\ rows[n] = contacts[rows[n].id]
                    /\ rows[n] = all[offset + n]
              /\ \A n, k \in 1 .. Len(all) : all[n] = all[k] => n = k
              /\ own = {} => rows = <<>>
    /\ (resp.op = "get_contacts" /\ resp.args # None)
          => /\ resp.status = 200
             /\ \A n \in 1 .. Len(resp.body) : resp.body[n].user_id = resp.args.user_id
             /\ (\A i \in DOMAIN contacts : contacts[i].user_id # resp.args.user_id)
                   => resp.body = <<>>

\* A user without contacts has listed the contacts and got 200 with an empty
\* list, while the other user owns two; for that user offset 1 leaves one.
C23_Witness ==
    /\ resp.op = "get_contacts"
    /\ resp.status = 200
    /\ resp.body = <<>>
    /\ \E e \in DOMAIN users :
          /\ users[e].id # resp.args.user_id
          /\ Cardinality(OwnedBy(users[e])) = 2
          /\ Len(get_contacts(10, 1, users[e])) = 1

----------------------------------------------------------------------------
(* Request bodies that leave fields out.  ContactSchema gives every field  *)
(* a default, so such a body passes validation; body.x is then the         *)
(* default and x is missing from fields_set.                               *)

\* additional_data left out: its default is None.
AnnWithoutNote ==
    [Ann EXCEPT !.additional_data = None,
                !.fields_set = ContactColumns \ {"additional_data"}]

\* first_name left out: its default is "John".
BobDefaultName ==
    [Bob EXCEPT !.first_name = <<"J", "o", "h", "n">>,
                !.fields_set = ContactColumns \ {"first_name"}]

AnyBodies == ContactBodies \cup {AnnWithoutNote, BobDefaultName}

CreateAnyContact ==
    Serve /\ \E token \in Presentable, body \in AnyBodies :
                create_contact_route(token, body)

UpdateAnyContact ==
    Serve /\ \E token \in Presentable, contact_id \in ContactIds, body \in AnyBodies :
                update_contact_route(token, contact_id, body)

NextBodies ==
    \/ CreateAnyContact
    \/ UpdateAnyContact
    \/ GetContact
    \/ DeleteContact

SpecBodies == InitContacts /\ [][NextBodies]_vars

\* The row carries the six values of the body.
CarriesBody(contact, body) ==
    /\ contact.first_name = body.first_name
    /\ contact.last_name = body.last_name
    /\ contact.email = body.email
    /\ contact.phone_number = body.phone_number
    /\ contact.date_of_birth = body.date_of_birth
    /\ contact.additional_data = body.additional_data

(* C24: create_contact stores exactly one new contact whose first_name,    *)
(* last_name, email, phone_number, date_of_birth and additional_data equal *)
(* the request body and whose owner is the caller, returns it with an id   *)
(* (201), and the contact is afterwards returned by get_contact for that   *)
(* owner and id.                                                           *)
C24_CreateStoresBody ==
    [][resp'.op = "create_contact" =>
        \A T \in Presentable, body \in AnyBodies :
            (create_contact_route(T, body) /\ get_current_user(T).status = 200)
            => /\ resp'.status = 201
               /\ CarriesBody(resp'.body, body)
               /\ resp'.body.user_id = get_current_user(T).user.id
               /\ resp'.body.id \notin DOMAIN contacts
               /\ DOMAIN contacts' = DOMAIN contacts \cup {resp'.body.id}
               /\ \A i \in DOMAIN contacts : contacts'[i] = contacts[i]
               /\ contacts'[resp'.body.id] = resp'.body
      ]_vars

(* C25: update_contact on an existing contact of the caller replaces       *)
(* first_name, last_name, email, phone_number, date_of_birth and           *)
(* additional_data with the body's values, commits once and leaves the     *)
(* contact's id and owner unchanged; when the caller owns no contact with  *)
(* that id it returns None and commits and changes nothing.                *)
C25_UpdateReplacesFields ==
    [][resp'.op = "update_contact" =>
        \A T \in Presentable, contact_id \in ContactIds, body \in AnyBodies :
            ( /\ update_contact_route(T, contact_id, body)
              /\ get_current_user(T).status = 200 )
            => IF get_contact(contact_id, get_current_user(T).user) # None
                THEN /\ resp'.status = 200
                     /\ CarriesBody(resp'.body, body)
                     /\ resp'.body.id = contact_id
                     /\ resp'.body.user_id = contacts[contact_id].user_id
                     /\ DOMAIN contacts' = DOMAIN contacts
                     /\ contacts'[contact_id] = resp'.body
                     /\ \A i \in DOMAIN contacts \ {contact_id} : contacts'[i] = contacts[i]
               ELSE /\ resp'.body = None
                    /\ contacts' = contacts
      ]_vars

(* C26: delete_contact on an existing contact of the caller deletes        *)
(* exactly that contact and returns it, after which get_contact for that   *)
(* id returns absent and all other contacts are unchanged; when the caller *)
(* owns no contact with that id nothing is deleted and None is returned.   *)
C26_DeleteExactlyOne ==
    [][resp'.op = "delete_contact" =>
        \A T \in Presentable, contact_id \in ContactIds :
            ( /\ delete_contact_route(T, contact_id)
              /\ get_current_user(T).status = 200 )
            => IF get_contact(contact_id, get_current_user(T).user) # None
                THEN /\ resp'.body = contacts[contact_id]
                     /\ DOMAIN contacts' = DOMAIN contacts \ {contact_id}
                     /\ \A i \in DOMAIN contacts' : contacts'[i] = contacts[i]
                     /\ \A e \in DOMAIN users :
                           (get_contact(contact_id, users[e]))' = None
               ELSE /\ resp'.body = None
                    /\ contacts' = contacts
      ]_vars

\* A user has deleted one of the contacts; the id is gone and another
\* contact is still in the table.
C26_Witness ==
    /\ resp.op = "delete_contact"
    /\ resp.body # None
    /\ resp.body.id \notin DOMAIN contacts
    /\ resp.body.user_id = resp.args.user_id
    /\ contacts # <<>>

(* C27: request_email for an email with no user record ends in NotFound or *)
(* a no-op (no failure of another kind, no email dispatched); for a        *)
(* confirmed user it returns the 'already confirmed' message without       *)
(* dispatching an email; for an unconfirmed user it dispatches one         *)
(* confirmation email; in no case does it change the user directory.       *)
C27_RequestEmailContract ==
    [][resp'.op = "request_email" =>
        \A e \in Emails :
            request_email(e)
            => /\ users' = users
               /\ IF ~UserExists(e)
                    THEN /\ resp'.status \in {200, 404}
                         /\ issued' = issued
                  ELSE IF users[e].confirmed
                    THEN /\ resp'.status = 200
                         /\ resp'.detail = "Your email is already confirmed"
                         /\ issued' = issued
                  ELSE /\ resp'.status = 200
                       /\ issued' = issued \cup {send_email(e)}
      ]_vars

(* C28: every failure to decode an email-confirmation token (malformed,    *)
(* tampered or expired) is reported by get_email_from_token and            *)
(* confirmed_email as 422 Unprocessable, never as 401, and leaves every    *)
(* user's confirmed flag unchanged.                                        *)
C28_EmailTokenFailureIs422 ==
    [][resp'.op = "confirmed_email" =>
        \A T \in Presentable :
            ( /\ confirmed_email_route(T)
              /\ (~Genuine(T) \/ ~Unexpired(T)) )
            => /\ get_email_from_token(T).status = 422
               /\ resp'.status = 422
               /\ resp'.detail = "Invalid token for email verification"
               /\ \A u \in DOMAIN users : users'[u].confirmed = users[u].confirmed
               /\ users' = users
      ]_vars

\* A confirmation link has been followed after its token expired: 422, and
\* the user it was mailed to is still unconfirmed.
C28_Witness ==
    /\ resp.op = "confirmed_email"
    /\ resp.status = 422
    /\ \E t \in issued :
          /\ ScopeOf(t) = "email"
          /\ ~Unexpired(t)
          /\ ~users[Subject(t)].confirmed

----------------------------------------------------------------------------
(* The concurrent server.  Each request is a task of the event loop (or of *)
(* another worker process); a task runs until its next await, where the    *)
(* tasks of other requests may run.  Auth.get_current_user awaits the      *)
(* directory read of a cache miss (auth/services.py:160) and writes the    *)
(* cache when it is resumed (164-165); PATCH /avatar awaits                *)
(* update_avatar_url (users/routes.py:52), whose commit is an await        *)
(* (users/crud.py:8), and writes the cache when it is resumed (53-54).     *)

MaxRaceTicks == 2
MaxRaceRequests == 3
MaxTasks == 2
MaxAwait == 2

\* The longest time a task stays suspended, and a cache lifetime less one second.
RaceDeltas == {MaxAwait, CACHE_TTL - 1}

Task(op, stage, email, user) ==
    [op |-> op, stage |-> stage, email |-> email, user |-> user]

Suspend(task) == inflight (+) SetToBag({task})

Retire(task) == inflight (-) SetToBag({task})

Suspended == BagToSet(inflight)

\* The directory rows that this step changes are stamped with the clock.
Stamp ==
    changed_at' = [e \in Emails |->
                     IF UserExists(e) /\ users'[e] # users[e] THEN now ELSE changed_at[e]]

\* A request arrives and Auth.get_current_user runs up to its first await: a
\* rejected token and (for GET /users/me) a cache hit are answered at once; on
\* a miss the task is suspended holding the row it has read, and PATCH /avatar
\* with a hit is suspended before update_avatar_url.
Arrive(op, token) ==
    /\ requests < MaxRaceRequests
    /\ requests' = requests + 1
    /\ BagCardinality(inflight) < MaxTasks
    /\ LET r == get_current_user(token)
       IN  IF r.status # 200
            THEN /\ resp' = Response(op, r.status, r.detail, r.user)
                 /\ UNCHANGED inflight
           ELSE IF cache_get(r.user.email) = None
            THEN /\ inflight' = Suspend(Task(op, "read", r.user.email, r.user))
                 /\ UNCHANGED resp
           ELSE IF op = "me"
            THEN /\ resp' = Response("me", 200, "", r.user)
                 /\ UNCHANGED inflight
           ELSE /\ inflight' = Suspend(Task(op, "resolved", r.user.email, r.user))
                /\ UNCHANGED resp
    /\ UNCHANGED <<users, cache, issued, rotated, by_login, contactVars, envVars, changed_at>>

\* A lookup suspended at the directory read is resumed: cache.set and
\* cache.expire of the row it read, then GET /users/me returns that row and
\* PATCH /avatar goes on to its handler.
LookupWrite(task) ==
    /\ task \in Suspended
    /\ task.stage = "read"
    /\ LET resolved == [task EXCEPT !.stage = "resolved"]
       IN  /\ cache' = cache_set_expire(cache, task.email, pickle_dumps(task.user), CACHE_TTL)
           /\ IF task.op = "me"
                THEN /\ resp' = Response("me", 200, "", task.user)
                     /\ inflight' = Retire(task)
              ELSE /\ inflight' = Retire(task) (+) SetToBag({resolved})
                   /\ UNCHANGED resp
    /\ UNCHANGED <<users, issued, rotated, by_login, contactVars, envVars, requests,
                   changed_at>>

\* The handler of PATCH /avatar up to the commit of update_avatar_url; the
\* task then holds the refreshed row.
AvatarCommit(task, uploaded) ==
    /\ task \in Suspended
    /\ task.stage = "resolved"
    /\ LET url == build_url(task.email, now)
       IN  IF ~uploaded
            THEN /\ resp' = Response("avatar", 500, "cloudinary.exceptions.Error", NoBody)
                 /\ inflight' = Retire(task)
                 /\ UNCHANGED users
           ELSE LET directory == update_avatar_url(task.email, url)
                IN  /\ users' = directory
                    /\ inflight' = Retire(task) (+)
                                    SetToBag({Task("avatar", "committed", task.email,
                                                   directory[task.email])})
                    /\ UNCHANGED resp
    /\ Stamp
    /\ UNCHANGED <<cache, issued, rotated, by_login, contactVars, envVars, requests>>

\* PATCH /avatar is resumed after update_avatar_url: cache.set and
\* cache.expire of the refreshed row, which it returns.
AvatarSet(task) ==
    /\ task \in Suspended
    /\ task.stage = "committed"
    /\ LET user == task.user
       IN  /\ cache' = cache_set_expire(cache, user.email, pickle_dumps(user), CACHE_TTL)
           /\ resp' = Response("avatar", 200, "", user)
    /\ inflight' = Retire(task)
    /\ UNCHANGED <<users, issued, rotated, by_login, contactVars, envVars, requests,
                   changed_at>>

\* The clock advances: by no more than MaxAwait seconds while a task is
\* suspended.
Elapse(delta) ==
    /\ ticks < MaxRaceTicks
    /\ delta > MaxAwait => inflight = EmptyBag
    /\ now' = now + delta
    /\ ticks' = ticks + 1
    /\ cache' = [k \in {j \in DOMAIN cache : now + delta < cache[j].expire_at} |-> cache[k]]
    /\ resp' = Response("tick", 0, "", NoBody)
    /\ UNCHANGED <<users, issued, rotated, by_login, contactVars, requests, redis_up,
                   taskVars>>

MeArrives == \E token \in Presentable : Arrive("me", token)
AvatarArrives == \E token \in Presentable : Arrive("avatar", token)
LookupResumes == \E task \in Suspended : LookupWrite(task)
AvatarCommits == \E task \in Suspended, uploaded \in BOOLEAN : AvatarCommit(task, uploaded)
AvatarResumes == \E task \in Suspended : AvatarSet(task)
RaceAdvance == \E delta \in RaceDeltas : Elapse(delta)

\* Identity lookups and avatar updates of logged-in users, served concurrently.
NextRace ==
    \/ MeArrives
    \/ AvatarArrives
    \/ LookupResumes
    \/ AvatarCommits
    \/ AvatarResumes
    \/ RaceAdvance

SpecRace == InitContacts /\ [][NextRace]_vars

(* C29: a cache write race is benign: when two requests concurrently       *)
(* populate the same cache key (two get_current_user misses, or a miss     *)
(* interleaved with an avatar update that commits and overwrites the key), *)
(* both write equivalent data, so whichever write lands last the cache     *)
(* entry equals the directory record: once no request is suspended, every  *)
(* user's cache entry is absent or equal to the user's directory row.      *)
C29_CacheRaceBenign ==
    inflight = EmptyBag => \A u \in DOMAIN users : CacheAgrees(u)

\* A request of the session flows is served between the steps of the
\* suspended tasks.
ServeBetween ==
    /\ requests < MaxRaceRequests
    /\ requests' = requests + 1
    /\ Stamp
    /\ UNCHANGED inflight

LoginBetween ==
    (\E username \in Emails, password \in Passwords : login(username, password)) /\ ServeBetween
RefreshBetween == (\E token \in Presentable : refresh_token(token)) /\ ServeBetween
ConfirmBetween == (\E token \in Presentable : confirmed_email_route(token)) /\ ServeBetween

\* Authenticated requests interleaved with login, refresh, confirmation and
\* avatar updates.
NextStale ==
    \/ NextRace
    \/ LoginBetween
    \/ RefreshBetween
    \/ ConfirmBetween

SpecStale == InitContacts /\ [][NextStale]_vars

\* This step is GET /users/me returning a user: at once on a cache hit, or
\* when its suspended lookup is resumed.
MeReturns ==
    /\ \/ \E token \in Presentable : Arrive("me", token) /\ inflight' = inflight
       \/ \E task \in Suspended : task.op = "me" /\ LookupWrite(task)
    /\ resp'.status = 200

(* C30: staleness is bounded by the TTL: get_current_user never returns a  *)
(* user snapshot that differs from the directory record more than 300      *)
(* seconds after the directory record was changed, for any interleaving of *)
(* authenticated requests with login, refresh, confirmation and avatar     *)
(* updates.                                                                *)
C30_StalenessBounded ==
    [][MeReturns =>
          \A e \in Emails :
              (resp'.body.email = e /\ resp'.body # users'[e])
                  => now' <= changed_at'[e] + CACHE_TTL
      ]_vars

----------------------------------------------------------------------------
(* C31: login for an email with no user record fails with 401 'Invalid     *)
(* email'; for a confirmed user, login succeeds if and only if the         *)
(* presented password is the one given at signup, otherwise it fails with  *)
(* 401 'Invalid password'; every failed login leaves the user's stored     *)
(* refresh_token, confirmed flag and cache entry unchanged.                *)
C31_LoginContract ==
    [][resp'.op = "login" =>
        \A e \in Emails, p \in Passwords :
            login(e, p)
            => /\ ~UserExists(e)
                    => resp'.status = 401 /\ resp'.detail = "Invalid email"
               /\ (UserExists(e) /\ users[e].confirmed)
                    => IF users[e].password = get_password_hash(p)
                         THEN resp'.status = 200
                         ELSE resp'.status = 401 /\ resp'.detail = "Invalid password"
               /\ resp'.status # 200 => users' = users /\ cache' = cache
      ]_vars

\* A logged-in user has just been refused for a wrong password: the stored
\* refresh token is still there.
C31_Witness ==
    /\ resp.op = "login"
    /\ resp.detail = "Invalid password"
    /\ \E e \in DOMAIN users :
          /\ users[e].confirmed
          /\ users[e].refresh_token \in by_login

----------------------------------------------------------------------------
(* Sessions over a cache that loses its keys.  redis keeps the keys in      *)
(* memory only: a restart removes every entry before its expiry and        *)
(* changes nothing else.                                                   *)

MaxSessionRequests == 2

Eviction ==
    /\ cache # <<>>
    /\ cache' = <<>>
    /\ UNCHANGED <<users, issued, rotated, by_login, contactVars, envVars, requests,
                   resp, taskVars>>

ServeSession ==
    /\ requests < MaxSessionRequests
    /\ requests' = requests + 1
    /\ UNCHANGED taskVars

SessionLogin ==
    ServeSession /\ \E username \in Emails, password \in Passwords : login(username, password)
SessionRefresh == ServeSession /\ \E token \in Presentable : refresh_token(token)
SessionConfirm == ServeSession /\ \E token \in Presentable : confirmed_email_route(token)
SessionMe == ServeSession /\ \E token \in Presentable : me(token)
\* One second passes.
SessionAdvance == Tick(1)

NextEvict ==
    \/ SessionLogin
    \/ SessionRefresh
    \/ SessionConfirm
    \/ SessionMe
    \/ SessionAdvance
    \/ Eviction

SpecEvict == InitContacts /\ [][NextEvict]_vars

\* What each session request can answer, and what it can leave in the
\* directory.
TokenPair(email) ==
    [access_token |-> create_access_token([sub |-> email], 0),
     refresh_token |-> create_refresh_token([sub |-> email], 0),
     token_type |-> "bearer"]

LoginResponses(email) ==
    {Response("login", 401, detail, NoBody) :
        detail \in {"Invalid email", "Email not confirmed", "Invalid password"}}
    \cup {Response("login", 200, "", TokenPair(email))}

RefreshResponses(email) ==
    {Response("refresh_token", 401, detail, NoBody) :
        detail \in {"Could not validate credentials", "Invalid scope for token",
                    "Invalid refresh token"}}
    \cup {Response("refresh_token", 500, detail, NoBody) :
            detail \in {"AttributeError", "KeyError: 'scope'"}}
    \cup {Response("refresh_token", 200, "", TokenPair(email))}

ConfirmResponses ==
    {Response("confirmed_email", 422, "Invalid token for email verification", NoBody),
     Response("confirmed_email", 400, "Verification error", NoBody),
     Response("confirmed_email", 200, "Your email is already confirmed", NoBody),
     Response("confirmed_email", 200, "Email confirmed", NoBody)}

TokenDirectories(email) ==
    {users} \cup
    (IF UserExists(email)
        THEN {update_token(email, None),
              update_token(email, create_refresh_token([sub |-> email], 0))}
        ELSE {})

ConfirmDirectories(email) ==
    {users} \cup (IF UserExists(email) THEN {confirmed_email(email)} ELSE {})

\* The result and the directory state of each session request in this state.
LoginOutcome(username, password) ==
    {o \in LoginResponses(username) \X TokenDirectories(username) :
        ENABLED (login(username, password) /\ resp' = o[1] /\ users' = o[2])}

RefreshOutcome(token) ==
    {o \in RefreshResponses(Subject(token)) \X TokenDirectories(Subject(token)) :
        ENABLED (refresh_token(token) /\ resp' = o[1] /\ users' = o[2])}

ConfirmOutcome(token) ==
    {o \in ConfirmResponses \X ConfirmDirectories(Subject(token)) :
        ENABLED (confirmed_email_route(token) /\ resp' = o[1] /\ users' = o[2])}

(* C32: the cache is never the source of truth for session decisions: for  *)
(* any two states that differ only in cache contents (here: before and     *)
(* after the cache loses an entry, fresh or stale), login, refresh and     *)
(* email confirmation return the same result and produce the same          *)
(* directory state.                                                        *)
C32_SessionIgnoresCache ==
    [][Eviction =>
          /\ \A e \in Emails, p \in Passwords :
                /\ (LoginOutcome(e, p))' = LoginOutcome(e, p)
                /\ Cardinality(LoginOutcome(e, p)) = 1
          /\ \A t \in Presentable :
                /\ (RefreshOutcome(t))' = RefreshOutcome(t)
                /\ Cardinality(RefreshOutcome(t)) = 1
                /\ (ConfirmOutcome(t))' = ConfirmOutcome(t)
                /\ Cardinality(ConfirmOutcome(t)) = 1
      ]_vars

\* A login or a refresh has just replaced the stored refresh token of a user
\* whose cache entry, still alive, holds the old one: the state with this
\* entry and the state without it differ only in cache contents.
C32_Witness ==
    /\ resp.op \in {"login", "refresh_token"}
    /\ resp.status = 200
    /\ \E e \in DOMAIN users :
          /\ cache_get(e) # None
          /\ pickle_loads(cache_get(e)).refresh_token # users[e].refresh_token
          /\ RefreshOutcome(users[e].refresh_token)
                = {<<Response("refresh_token", 200, "", TokenPair(e)),
                     update_token(e, create_refresh_token([sub |-> e], 0))>>}

----------------------------------------------------------------------------
(* C33: in every reachable state, a user whose stored refresh_token is     *)
(* non-null has confirmed = true: no sequence of signup, login, refresh,   *)
(* confirmation, request_email and avatar operations stores a refresh      *)
(* token on an unconfirmed user.                                           *)
C33_RefreshTokenImpliesConfirmed ==
    \A u \in DOMAIN users :
        users[u].refresh_token # None => users[u].confirmed

\* One user holds a refresh token while an unconfirmed user has just been
\* refused a login.
C33_Witness ==
    /\ resp.op = "login"
    /\ resp.detail = "Email not confirmed"
    /\ \E u \in DOMAIN users : users[u].refresh_token # None
    /\ \E u \in DOMAIN users : ~users[u].confirmed /\ users[u].refresh_token = None

----------------------------------------------------------------------------
(* Concurrent refresh requests.  GET /auth/refresh_token awaits the        *)
(* directory read (auth/routes.py:90); when it is resumed it compares the  *)
(* row it read with the presented token and commits its update_token       *)
(* (routes.py:92-98).                                                      *)

RefreshTask(token, user) ==
    [op |-> "refresh_token", stage |-> "compare", email |-> user.email, user |-> user,
     token |-> token]

\* The session flushes an UPDATE only for an attribute whose value differs
\* from the one it loaded.
update_token_of(user, token) ==
    IF user.refresh_token = token THEN users ELSE update_token(user.email, token)

\* The request arrives: decode_refresh_token, then the directory read.
RefreshArrive(token) ==
    /\ requests < MaxRaceRequests
    /\ requests' = requests + 1
    /\ BagCardinality(inflight) < MaxTasks
    /\ LET d == decode_refresh_token(token)
       IN  IF d.status # 200
            THEN /\ resp' = Response("refresh_token", d.status, d.detail, NoBody)
                 /\ UNCHANGED inflight
           ELSE IF ~UserExists(d.email)
            THEN /\ resp' = Response("refresh_token", 500, "AttributeError", NoBody)
                 /\ UNCHANGED inflight
           ELSE /\ inflight' = Suspend(RefreshTask(token, users[d.email]))
                /\ UNCHANGED resp
    /\ UNCHANGED <<users, cache, issued, rotated, by_login, contactVars, envVars, changed_at>>

\* The request is resumed with the row it read.
RefreshWrite(task) ==
    /\ task \in Suspended
    /\ task.stage = "compare"
    /\ IF task.user.refresh_token # task.token
        THEN /\ users' = update_token_of(task.user, None)
             /\ resp' = Response("refresh_token", 401, "Invalid refresh token", NoBody)
             /\ UNCHANGED <<issued, rotated>>
        ELSE LET access_token == create_access_token([sub |-> task.email], 0)
                 new_refresh_token == create_refresh_token([sub |-> task.email], 0)
             IN  /\ users' = update_token_of(task.user, new_refresh_token)
                 /\ issued' = issued \cup {access_token, new_refresh_token}
                 /\ rotated' = rotated \cup {task.token}
                 /\ resp' = Response("refresh_token", 200, "",
                                     [access_token |-> access_token,
                                      refresh_token |-> new_refresh_token,
                                      token_type |-> "bearer"])
    /\ inflight' = Retire(task)
    /\ Stamp
    /\ UNCHANGED <<cache, by_login, contactVars, envVars, requests>>

RefreshArrives == \E token \in Presentable : RefreshArrive(token)
RefreshResumes == \E task \in Suspended : RefreshWrite(task)

NextRefresh ==
    \/ RefreshArrives
    \/ RefreshResumes
    \/ RaceAdvance

SpecRefresh == InitContacts /\ [][NextRefresh]_vars

(* C34: a refresh token is single-use under concurrency: for any           *)
(* interleaving of two refresh requests that present the same refresh      *)
(* token (each reading the user, comparing, then writing the new token),   *)
(* at most one of them succeeds: a refresh presenting a token with which   *)
(* an earlier refresh has succeeded, and which that refresh has replaced   *)
(* in the directory, does not succeed.                                     *)
C34_RefreshSingleUse ==
    [][\A task \in Suspended :
          ( /\ task.stage = "compare"
            /\ RefreshWrite(task)
            /\ resp'.status = 200
            /\ task.token \in rotated )
              => users[task.email].refresh_token = task.token
      ]_vars

----------------------------------------------------------------------------
(* Concurrent signups.  POST /auth/signup awaits the lookup                *)
(* (auth/routes.py:35) and, when resumed, hashes the password and inserts  *)
(* the row (routes.py:38-39, crud.py:41-45); users.email is unique         *)
(* (models.py:23), so the INSERT of a second row with the email fails.     *)

SignupTask(body) ==
    [op |-> "signup", stage |-> "insert", email |-> body.email, user |-> None, body |-> body]

\* The request arrives: the directory is asked for the email.
SignupArrive(email, password) ==
    /\ requests < MaxRaceRequests
    /\ requests' = requests + 1
    /\ BagCardinality(inflight) < MaxTasks
    /\ IF UserExists(email)
        THEN /\ resp' = Response("signup", 409, "Account already exists", NoBody)
             /\ UNCHANGED inflight
        ELSE /\ inflight' = Suspend(SignupTask([email |-> email, password |-> password]))
             /\ UNCHANGED resp
    /\ UNCHANGED <<users, cache, issued, rotated, by_login, contactVars, envVars, changed_at>>

\* The request is resumed: create_user adds the row and commits; the unique
\* index on users.email rejects a second row (IntegrityError, not caught).
SignupInsert(task) ==
    /\ task \in Suspended
    /\ task.stage = "insert"
    /\ IF UserExists(task.email)
        THEN /\ resp' = Response("signup", 500, IntegrityError, NoBody)
             /\ UNCHANGED <<users, issued>>
        ELSE LET new_user == create_user([email |-> task.body.email,
                                          password |-> get_password_hash(task.body.password)])
             IN  /\ users' = [e \in DOMAIN users \cup {task.email} |->
                                IF e = task.email THEN new_user ELSE users[e]]
                 /\ issued' = issued \cup {send_email(new_user.email)}
                 /\ resp' = Response("signup", 201, "", new_user)
    /\ inflight' = Retire(task)
    /\ UNCHANGED <<cache, rotated, by_login, contactVars, envVars, requests, changed_at>>

SignupArrives == \E email \in Emails, password \in Passwords : SignupArrive(email, password)
SignupResumes == \E task \in Suspended : SignupInsert(task)

NextSignup ==
    \/ SignupArrives
    \/ SignupResumes
    \/ RaceAdvance

SpecSignup == Init /\ [][NextSignup]_vars

(* C35: for any interleaving of signup requests carrying the same email    *)
(* (each doing lookup, then insert), at most one user record with that     *)
(* email exists in every reachable state, and every signup that does not   *)
(* create the record fails with 409 Conflict.                              *)
C35_ConcurrentSignup ==
    [][resp'.op = "signup" =>
          /\ \A email \in Emails, password \in Passwords :
                (SignupArrive(email, password) /\ inflight' = inflight)
                    => resp'.status = 409 /\ users' = users
          /\ \A task \in Suspended :
                (task.stage = "insert" /\ SignupInsert(task))
                    => /\ UserExists(task.email)'
                       /\ IF users' = users
                            THEN resp'.status = 409
                            ELSE /\ resp'.status = 201
                                 /\ ~UserExists(task.email)
                                 /\ \A e \in DOMAIN users : users'[e] = users[e]
      ]_vars

----------------------------------------------------------------------------
(* C36: get_current_user never consults the stored refresh token: an       *)
(* unexpired access token keeps authenticating its user after that user's  *)
(* refresh token has been rotated by a refresh or cleared by a rejected    *)
(* refresh, until the access token's own expiry.                           *)
C36_AccessTokenOutlivesRefresh ==
    \A t \in issued :
        ( /\ redis_up
          /\ ScopeOf(t) = "access_token"
          /\ Genuine(t)
          /\ UserExists(Subject(t)) )
            => IF Unexpired(t)
                 THEN /\ get_current_user(t).status = 200
                      /\ get_current_user(t).user.email = Subject(t)
                 ELSE get_current_user(t).status = 401

\* A rejected refresh has just cleared the stored refresh token of a user
\* whose access token is unexpired and not answered from the cache.
C36_Witness ==
    /\ resp.op = "refresh_token"
    /\ resp.detail = "Invalid refresh token"
    /\ \E t \in issued :
          /\ ScopeOf(t) = "access_token"
          /\ Unexpired(t)
          /\ users[Subject(t)].refresh_token = None
          /\ cache_get(Subject(t)) = None
          /\ get_current_user(t).status = 200

----------------------------------------------------------------------------
(* C37: a refresh request whose token fails decoding (tampered, expired or *)
(* not refresh-scoped) fails with 401 and leaves every user's stored       *)
(* refresh_token unchanged; the stored token is cleared only when a        *)
(* validly decoded, unexpired refresh token differs from the stored value. *)
C37_FailedDecodeLeavesTokens ==
    [][resp'.op = "refresh_token" =>
        \A T \in Presentable :
            refresh_token(T)
            => /\ (~Genuine(T) \/ ~Unexpired(T) \/ ScopeOf(T) # "refresh_token")
                    => /\ resp'.status = 401
                       /\ users' = users
               /\ \A u \in DOMAIN users :
                     (users[u].refresh_token # None /\ users'[u].refresh_token = None)
                        => /\ Genuine(T) /\ Unexpired(T)
                           /\ ScopeOf(T) = "refresh_token"
                           /\ Subject(T) = u
                           /\ users[u].refresh_token # T
      ]_vars

----------------------------------------------------------------------------
(* C38: in every reachable state each user's stored refresh_token is       *)
(* either null or a refresh-scoped token that was issued by login or       *)
(* refresh with subject equal to that user's own email; no operation       *)
(* stores an access token, an email token or another user's token there.   *)
C38_StoredTokenIsOwnRefreshToken ==
    \A u \in DOMAIN users :
        LET stored == users[u].refresh_token
        IN  stored # None
              => /\ stored \in issued
                 /\ Genuine(stored)
                 /\ ScopeOf(stored) = "refresh_token"
                 /\ Subject(stored) = u
                 /\ stored.payload.iat <= now
                 /\ stored.payload.exp = stored.payload.iat + REFRESH_TTL

\* A refresh has just stored the token it returned, while another user is
\* registered and holds no token.
C38_Witness ==
    /\ resp.op = "refresh_token"
    /\ resp.status = 200
    /\ \E u \in DOMAIN users : users[u].refresh_token = resp.body.refresh_token
    /\ \E u \in DOMAIN users : users[u].refresh_token = None

----------------------------------------------------------------------------
(* C39: the confirmed flag is monotonic: once a user's confirmed flag is   *)
(* true, no operation (signup, login, refresh, email confirmation,         *)
(* request_email, avatar update) ever sets it back to false.               *)
C39_ConfirmedMonotonic ==
    [][\A u \in DOMAIN users :
          users[u].confirmed => (u \in DOMAIN users' /\ users'[u].confirmed)
      ]_vars

\* An avatar update has just rewritten the row of a confirmed user.
C39_Witness ==
    /\ resp.op = "avatar"
    /\ resp.status = 200
    /\ resp.body.avatar = users[resp.body.email].avatar
    /\ users[resp.body.email].confirmed

====
